---- MODULE Spec2Model ----
(***************************************************************************)
(* Frustrum-voxel pipeline of core/renderings/frustrum_voxels.py:          *)
(*   create_frustrum_voxels -> create_temp_frustrum_voxels -> _shrink_data *)
(* The two HDF5 files (the temp store and the final store) are the         *)
(* persistent state; one process at a time runs the pipeline and may be    *)
(* terminated between any two file operations.  An exception or an         *)
(* interrupt unwinds the `with h5py.File(...)` blocks, so every file       *)
(* operation already executed is in the file, in program order.            *)
(***************************************************************************)
EXTENDS Integers, Sequences, FiniteSets, TLC

\* ------------------------------------------------------------------ bounds
MaxObjects == 2
MaxWidth == 1
MaxRuns == 3
MaxChunk == 3
MaxShrinkObjects == 3

\* ------------------------------------------------------- program constants
GROUP_KEY == "rle-pad-lzf_data"
n_renderings == 2
DefaultChunkSize == 100

VARIABLES
    inp,        \* what the collaborators provide: has_dataset, n, m, n0, dlen
    tmp,        \* the file at temp_path
    dst,        \* the file at dst_path
    pc,         \* position of the running process, "idle" when none runs
    out,        \* how the last invocation ended
    prog,       \* local prog of create_temp_frustrum_voxels
    max_len,    \* local max_len (accumulator and compactor)
    i,          \* loop index i (accumulator and compactor)
    j,          \* loop index j
    chunk_size, \* argument of _shrink_data
    runs,       \* invocations so far
    tmp0,       \* the temp store as it was when the current invocation began
    intr_kind,  \* "none", "commit" (only interrupted at the top of the object loop), "other"
    intr_k      \* number of committed objects at the last such interruption

vars == <<inp, tmp, dst, pc, out, prog, max_len, i, j, chunk_size,
          runs, tmp0, intr_kind, intr_k>>

\* ------------------------------------------------------------ small helpers
Min(a, b) == IF a < b THEN a ELSE b

Max(a, b) == IF a > b THEN a ELSE b

Zeros(k) == [x \in 1..k |-> 0]

\* seq[:k] with Python's clipping of the stop index
Take(seq, k) == SubSeq(seq, 1, Min(k, Len(seq)))

\* x zero-padded to width w
Pad(x, w) == [k \in 1..w |-> IF k <= Len(x) THEN x[k] ELSE 0]

\* -------------------------------------------------------- h5py file model
EmptyDict == [k \in {} |-> 0]

NoFile == [exists |-> FALSE, attrs |-> EmptyDict, datasets |-> EmptyDict]

\* os.path.isfile(path)
isfile(file) == file.exists

\* h5py.File(path, 'a'): open, creating an empty file when there is none
OpenAppend(file) ==
    IF file.exists THEN file
    ELSE [exists |-> TRUE, attrs |-> EmptyDict, datasets |-> EmptyDict]

\* h5py.File(path, 'w'): create, truncating what was there
OpenTruncate(file) ==
    [exists |-> TRUE, attrs |-> EmptyDict, datasets |-> EmptyDict]

\* a source file opened in a writing mode that truncates it
OpenReadTruncating(file) == OpenTruncate(file)

\* h5py.File(path, 'r') of an existing file: the file afterwards
OpenRead(file) == file

\* attrs.get(key, default)
AttrsGet(attrs, key, default) ==
    IF key \in DOMAIN attrs THEN attrs[key] ELSE default

\* attrs[key] = value
AttrsSet(attrs, key, value) == (key :> value) @@ attrs

\* attrs.setdefault(key, default): the mapping afterwards
AttrsSetDefault(attrs, key, default) ==
    IF key \in DOMAIN attrs THEN attrs ELSE AttrsSet(attrs, key, default)

\* a zero-filled uint8 dataset of shape (n, r, w)
NewDataset(n, r, w) ==
    [shape |-> <<n, r, w>>,
     data  |-> [a \in 0..(n - 1) |-> [b \in 0..(r - 1) |-> Zeros(w)]]]

\* a require_dataset that replaces the dataset it finds by a fresh one
RequireDatasetFresh(file, n, r, w) ==
    [file EXCEPT !.datasets = (GROUP_KEY :> NewDataset(n, r, w))]

\* file.require_dataset(GROUP_KEY, shape=(n, r, w), ...): the file afterwards
RequireDataset(file, n, r, w) ==
    IF GROUP_KEY \in DOMAIN file.datasets THEN file
    ELSE [file EXCEPT !.datasets = (GROUP_KEY :> NewDataset(n, r, w)) @@ @]

\* ------------------------------------------------------------- the inputs
\* convert(vox, eye[j], ray_shape).rle_data() for object a, rendering b: a
\* byte stream whose length the geometry decides; its bytes identify (a, b).
RleData(a, b) == [x \in 1..inp.dlen[a][b] |-> 1 + a * n_renderings + b]

\* max_max_len = m * 3
MaxMaxLen(m) == m * 3

\* encoded lengths tried for source width m: a short stream, one that fills
\* the allocated width exactly, and one that exceeds it
Lens(m) == {1, MaxMaxLen(m), MaxMaxLen(m) + 1}

Inputs ==
    UNION { [has_dataset : BOOLEAN, n : {n}, m : {m}, n0 : 0..MaxObjects,
             dlen : [0..(n - 1) -> [0..(n_renderings - 1) -> Lens(m)]]]
            : <<n, m>> \in (0..MaxObjects) \X (1..MaxWidth) }

\* ---------------------------------------------------------------- process
\* the invocation ends (return, exception or termination): locals are gone
Ends(how) ==
    /\ pc' = "idle"
    /\ out' = how
    /\ prog' = 0
    /\ max_len' = 0
    /\ i' = 0
    /\ j' = 0

Init ==
    /\ inp \in Inputs
    /\ tmp = NoFile
    /\ dst = NoFile
    /\ pc = "idle"
    /\ out = "none"
    /\ prog = 0
    /\ max_len = 0
    /\ i = 0
    /\ j = 0
    /\ chunk_size = DefaultChunkSize
    /\ runs = 0
    /\ tmp0 = NoFile
    /\ intr_kind = "none"
    /\ intr_k = 0

\* an orchestrator without the existence test
FinalPresentNever(file) == FALSE

\* line 198: os.path.isfile(dst_path)
FinalPresent(file) == isfile(file)

\* lines 189-202: the 'Already present.' short-circuit, else the accumulator

create_frustrum_voxels ==
    /\ pc = "idle"
    /\ runs < MaxRuns
    /\ runs' = runs + 1
    /\ tmp0' = tmp
    /\ IF FinalPresent(dst)
       THEN Ends("Already present.")
       ELSE /\ pc' = "acc_open"
            /\ out' = "running"
            /\ UNCHANGED <<prog, max_len, i, j>>
    /\ UNCHANGED <<inp, tmp, dst, chunk_size, intr_kind, intr_k>>

\* a completeness test that never holds
JobCompleteNever(p, n0) == FALSE

\* line 80: prog == n0
JobComplete(p, n0) == p = n0

\* lines 76-81: open the temp file, read prog, return when the job is complete
AccOpen ==
    /\ pc = "acc_open"
    /\ tmp' = OpenAppend(tmp)
    /\ LET p == AttrsGet(OpenAppend(tmp).attrs, "prog", 0) IN
       IF JobComplete(p, inp.n0)
       THEN /\ pc' = "shrink_open"
            /\ UNCHANGED prog
       ELSE /\ pc' = "acc_n_renderings"
            /\ prog' = p
    /\ UNCHANGED <<inp, dst, out, max_len, i, j, chunk_size, runs, tmp0,
                   intr_kind, intr_k>>

\* line 83
AccSetNRenderings ==
    /\ pc = "acc_n_renderings"
    /\ tmp' = [tmp EXCEPT !.attrs = AttrsSetDefault(@, "n_renderings", n_renderings)]
    /\ pc' = "acc_max_len"
    /\ UNCHANGED <<inp, dst, out, prog, max_len, i, j, chunk_size, runs, tmp0,
                   intr_kind, intr_k>>

\* a setdefault whose result is the default even when the key is stored
SetDefaultValueFresh(attrs, key, default) == default

\* line 84: the value setdefault returns
SetDefaultValue(attrs, key, default) == AttrsGet(attrs, key, default)

AccSetMaxLen ==
    /\ pc = "acc_max_len"
    /\ tmp' = [tmp EXCEPT !.attrs = AttrsSetDefault(@, "max_len", 0)]
    /\ max_len' = SetDefaultValue(tmp.attrs, "max_len", 0)
    /\ pc' = "acc_source"
    /\ UNCHANGED <<inp, dst, out, prog, i, j, chunk_size, runs, tmp0,
                   intr_kind, intr_k>>

\* a loop that resumes one object too far
LoopStartNext(p) == p + 1

\* a loop that starts over at the first object
LoopStartZero(p) == 0

\* line 104: the first index of range(prog, n)
LoopStart(p) == p

\* lines 86-103: the source dataset, the row-count assertion, require_dataset
AccSource ==
    /\ pc = "acc_source"
    /\ IF ~inp.has_dataset
       THEN Ends("RuntimeError") /\ UNCHANGED tmp
       ELSE IF inp.n # inp.n0
       THEN Ends("AssertionError") /\ UNCHANGED tmp
       ELSE /\ tmp' = RequireDataset(tmp, inp.n, n_renderings, MaxMaxLen(inp.m))
            /\ i' = LoopStart(prog)
            /\ pc' = "acc_loop"
            /\ UNCHANGED <<out, prog, max_len, j>>
    /\ UNCHANGED <<inp, dst, chunk_size, runs, tmp0, intr_kind, intr_k>>

\* lines 104-108 and 121-122: the head of the object loop
AccLoop ==
    /\ pc = "acc_loop"
    /\ IF i < inp.n
       THEN /\ pc' = "acc_convert"
            /\ j' = 0
       ELSE /\ pc' = "shrink_open"
            /\ UNCHANGED j
    /\ UNCHANGED <<inp, tmp, dst, out, prog, max_len, i, chunk_size, runs, tmp0,
                   intr_kind, intr_k>>

\* a test that lets an encoding one byte longer than max_len pass
NeedsRaiseLate(dlen, len) == dlen > len + 1

\* line 112: dlen > max_len
NeedsRaise(dlen, len) == dlen > len

\* lines 108-118: convert, raise max_len, the capacity check
AccConvert ==
    /\ pc = "acc_convert"
    /\ IF j < n_renderings
       THEN LET dlen == Len(RleData(i, j)) IN
            IF NeedsRaise(dlen, max_len)
            THEN /\ tmp' = [tmp EXCEPT !.attrs = AttrsSet(@, "max_len", dlen)]
                 /\ IF dlen > MaxMaxLen(inp.m)
                    THEN Ends("ValueError")
                    ELSE /\ max_len' = dlen
                         /\ pc' = "acc_write"
                         /\ UNCHANGED <<out, prog, i, j>>
            ELSE /\ pc' = "acc_write"
                 /\ UNCHANGED <<tmp, out, prog, max_len, i, j>>
       ELSE /\ pc' = "acc_commit"
            /\ UNCHANGED <<tmp, out, prog, max_len, i, j>>
    /\ UNCHANGED <<inp, dst, chunk_size, runs, tmp0, intr_kind, intr_k>>

\* an entry write that forgets the rendering index
SetEntryFirstColumn(ds, a, b, data) ==
    [ds EXCEPT !.data[a][0] =
        [x \in 1..Len(@) |-> IF x <= Len(data) THEN data[x] ELSE @[x]]]

\* rle_dst[a, b, :dlen] = data, for dlen within the last axis
SetEntry(ds, a, b, data) ==
    [ds EXCEPT !.data[a][b] =
        [x \in 1..Len(@) |-> IF x <= Len(data) THEN data[x] ELSE @[x]]]

\* line 119: h5py clips :dlen to the axis and refuses data of another length
AccWrite ==
    /\ pc = "acc_write"
    /\ LET data == RleData(i, j) IN
       IF Len(data) > tmp.datasets[GROUP_KEY].shape[3]
       THEN Ends("TypeError") /\ UNCHANGED tmp
       ELSE /\ tmp' = [tmp EXCEPT !.datasets[GROUP_KEY] = SetEntry(@, i, j, data)]
            /\ j' = j + 1
            /\ pc' = "acc_convert"
            /\ UNCHANGED <<out, prog, max_len, i>>
    /\ UNCHANGED <<inp, dst, chunk_size, runs, tmp0, intr_kind, intr_k>>

\* a commit that stores the index of the object instead of the count
NextProgSame(a) == a

\* line 120: the value stored as prog after object a
NextProg(a) == a + 1

\* line 120
AccCommit ==
    /\ pc = "acc_commit"
    /\ tmp' = [tmp EXCEPT !.attrs = AttrsSet(@, "prog", NextProg(i))]
    /\ i' = i + 1
    /\ pc' = "acc_loop"
    /\ UNCHANGED <<inp, dst, out, prog, max_len, j, chunk_size, runs, tmp0,
                   intr_kind, intr_k>>

\* lines 128-132: read max_len and the dataset of the temp file, create dst
ShrinkOpen ==
    /\ pc = "shrink_open"
    /\ tmp' = OpenRead(tmp)
    /\ IF "max_len" \notin DOMAIN tmp.attrs \/ GROUP_KEY \notin DOMAIN tmp.datasets
       THEN Ends("KeyError") /\ UNCHANGED dst
       ELSE /\ max_len' = tmp.attrs["max_len"]
            /\ dst' = OpenTruncate(dst)
            /\ pc' = "shrink_create"
            /\ UNCHANGED <<out, prog, i, j>>
    /\ UNCHANGED <<inp, chunk_size, runs, tmp0, intr_kind, intr_k>>

\* lines 133-137: dst.create_dataset(GROUP_KEY, shape=(n_examples, n_renderings, max_len))
ShrinkCreate ==
    /\ pc = "shrink_create"
    /\ LET shape == tmp.datasets[GROUP_KEY].shape IN
       dst' = [dst EXCEPT !.datasets =
                  (GROUP_KEY :> NewDataset(shape[1], shape[2], max_len)) @@ @]
    /\ i' = 0
    /\ pc' = "shrink_copy"
    /\ UNCHANGED <<inp, tmp, out, prog, max_len, j, chunk_size, runs, tmp0,
                   intr_kind, intr_k>>

\* a chunk loop that runs over whole chunks only
MoreChunksWhole(c, n_examples, chunk) == c + chunk <= n_examples

\* line 138: range(0, n_examples, chunk_size) has an index c to visit
MoreChunks(c, n_examples, chunk) == c < n_examples

\* line 139
ChunkStop(c, chunk, n_examples) == Min(c + chunk, n_examples)

\* line 140: dst_dataset[lo:hi] = src_group[lo:hi, :, :w]
CopyRows(dstds, srcds, lo, hi, w) ==
    [dstds EXCEPT !.data =
        [a \in DOMAIN @ |->
            IF lo <= a /\ a < hi
            THEN [b \in DOMAIN srcds.data[a] |-> Take(srcds.data[a][b], w)]
            ELSE @[a]]]

\* lines 138-142 and the return of create_frustrum_voxels
ShrinkCopy ==
    /\ pc = "shrink_copy"
    /\ LET src_group == tmp.datasets[GROUP_KEY]
           n_examples == src_group.shape[1]
       IN  IF MoreChunks(i, n_examples, chunk_size)
           THEN IF max_len > src_group.shape[3]
                THEN Ends("TypeError") /\ UNCHANGED dst
                ELSE /\ dst' = [dst EXCEPT !.datasets[GROUP_KEY] =
                                   CopyRows(@, src_group, i,
                                            ChunkStop(i, chunk_size, n_examples), max_len)]
                     /\ i' = i + chunk_size
                     /\ UNCHANGED <<pc, out, prog, max_len, j>>
           ELSE Ends("ok") /\ UNCHANGED dst
    /\ UNCHANGED <<inp, tmp, chunk_size, runs, tmp0, intr_kind, intr_k>>

\* the process is terminated between two file operations
Terminate ==
    /\ pc # "idle"
    /\ Ends("killed")
    /\ IF pc = "acc_loop" /\ intr_kind # "other"
       THEN intr_kind' = "commit" /\ intr_k' = AttrsGet(tmp.attrs, "prog", 0)
       ELSE intr_kind' = "other" /\ UNCHANGED intr_k
    /\ UNCHANGED <<inp, tmp, dst, chunk_size, runs, tmp0>>

Next ==
    \/ create_frustrum_voxels
    \/ AccOpen
    \/ AccSetNRenderings
    \/ AccSetMaxLen
    \/ AccSource
    \/ AccLoop
    \/ AccConvert
    \/ AccWrite
    \/ AccCommit
    \/ ShrinkOpen
    \/ ShrinkCreate
    \/ ShrinkCopy
    \/ Terminate

Spec == Init /\ [][Next]_vars

\* ------------------------------------- _shrink_data on a given temp store
\* a temp store holding, for every (a, b), RleData(a, b) padded to the width
StoreOf(input, len) ==
    [exists   |-> TRUE,
     attrs    |-> [n_renderings |-> n_renderings, max_len |-> len, prog |-> input.n],
     datasets |-> (GROUP_KEY :>
        [shape |-> <<input.n, n_renderings, MaxMaxLen(input.m)>>,
         data  |-> [a \in 0..(input.n - 1) |-> [b \in 0..(n_renderings - 1) |->
                      [k \in 1..MaxMaxLen(input.m) |->
                          IF k <= input.dlen[a][b]
                          THEN 1 + a * n_renderings + b ELSE 0]]]])]

ShrinkInputs ==
    UNION { [has_dataset : {TRUE}, n : {n}, m : {m}, n0 : {n},
             dlen : [0..(n - 1) -> [0..(n_renderings - 1) -> {1, MaxMaxLen(m)}]]]
            : <<n, m>> \in (0..MaxShrinkObjects) \X (1..MaxWidth) }

InitShrink ==
    /\ inp \in ShrinkInputs
    /\ \E len \in 0..MaxMaxLen(inp.m) : tmp = StoreOf(inp, len)
    /\ dst = NoFile
    /\ pc = "shrink_open"
    /\ out = "running"
    /\ prog = 0
    /\ max_len = 0
    /\ i = 0
    /\ j = 0
    /\ chunk_size \in 1..MaxChunk
    /\ runs = 1
    /\ tmp0 = tmp
    /\ intr_kind = "none"
    /\ intr_k = 0

NextShrink ==
    \/ ShrinkOpen
    \/ ShrinkCreate
    \/ ShrinkCopy

SpecShrink == InitShrink /\ [][NextShrink]_vars

\* ------------------------------------- _concat_data on a given temp store
\* rle.remove_length_padding(row): the stream without the zero bytes that
\* pad it to the fixed width
RECURSIVE remove_length_padding(_)
remove_length_padding(row) ==
    IF Len(row) = 0 \/ row[Len(row)] # 0 THEN row
    ELSE remove_length_padding(SubSeq(row, 1, Len(row) - 1))

\* a 1-D dataset or array holding the values of f, a function on 0..(len - 1)
Array1(len, f) == [shape |-> <<len>>, data |-> [x \in 0..(len - 1) |-> f[x]]]

\* an offset that restarts at every entry
StartAfterAlone(start, data) == Len(data)

\* line 166: start += len(data)
StartAfter(start, data) == start + Len(data)

\* lines 161-168: the loops that fill starts[1..n_total], from entry k on
RECURSIVE StartsLoop(_, _, _, _)
StartsLoop(src_group, k, start, starts) ==
    IF k = src_group.shape[1] * src_group.shape[2] + 1 THEN starts
    ELSE LET a == (k - 1) \div src_group.shape[2]
             b == (k - 1) % src_group.shape[2]
             data == remove_length_padding(src_group.data[a][b])
             next == StartAfter(start, data)
         IN  StartsLoop(src_group, k + 1, next, [starts EXCEPT ![k] = next])

\* lines 153-170: starts, with starts[0] = 0
ComputeStarts(src_group) ==
    LET n_total == src_group.shape[1] * src_group.shape[2]
    IN  StartsLoop(src_group, 1, 0, [x \in 0..n_total |-> 0])

\* values[lo:hi] = data, for data of length hi - lo
SetSlice(values, lo, hi, data) ==
    [x \in DOMAIN values |->
        IF lo <= x /\ x < hi THEN data[x - lo + 1] ELSE values[x]]

\* lines 178-184: the loops that fill values, from entry k on; ok is false
\* once an assignment was refused because the lengths differ
RECURSIVE TransferLoop(_, _, _, _)
TransferLoop(src_group, starts, k, values) ==
    IF k = src_group.shape[1] * src_group.shape[2]
    THEN [ok |-> TRUE, values |-> values]
    ELSE LET a == k \div src_group.shape[2]
             b == k % src_group.shape[2]
             data == remove_length_padding(src_group.data[a][b])
             lo == starts[k]
             hi == Min(starts[k + 1], Cardinality(DOMAIN values))
         IN  IF hi - lo # Len(data) THEN [ok |-> FALSE, values |-> values]
             ELSE TransferLoop(src_group, starts, k + 1,
                               SetSlice(values, lo, hi, data))

\* lines 149-152: open the temp file for reading, create dst
ConcatOpen ==
    /\ pc = "concat_open"
    /\ tmp' = OpenRead(tmp)
    /\ IF GROUP_KEY \notin DOMAIN tmp.datasets
       THEN Ends("KeyError") /\ UNCHANGED dst
       ELSE /\ dst' = OpenTruncate(dst)
            /\ pc' = "concat_starts"
            /\ UNCHANGED <<out, prog, max_len, i, j>>
    /\ UNCHANGED <<inp, chunk_size, runs, tmp0, intr_kind, intr_k>>

\* lines 153-173: compute starts, create the datasets starts and values
ConcatStarts ==
    /\ pc = "concat_starts"
    /\ LET src_group == tmp.datasets[GROUP_KEY]
           n_total == src_group.shape[1] * src_group.shape[2]
           starts == ComputeStarts(src_group)
       IN  dst' = [dst EXCEPT !.datasets =
                     ("starts" :> Array1(n_total + 1, starts))
                     @@ ("values" :> Array1(starts[n_total], [x \in 0..(starts[n_total] - 1) |-> 0]))
                     @@ @]
    /\ pc' = "concat_values"
    /\ UNCHANGED <<inp, tmp, out, prog, max_len, i, j, chunk_size, runs, tmp0,
                   intr_kind, intr_k>>

\* lines 175-186: copy every stream to its place in values
ConcatValues ==
    /\ pc = "concat_values"
    /\ LET src_group == tmp.datasets[GROUP_KEY]
           r == TransferLoop(src_group, dst.datasets["starts"].data, 0,
                             dst.datasets["values"].data)
       IN  /\ dst' = [dst EXCEPT !.datasets["values"].data = r.values]
           /\ Ends(IF r.ok THEN "ok" ELSE "TypeError")
    /\ UNCHANGED <<inp, tmp, chunk_size, runs, tmp0, intr_kind, intr_k>>

ConcatInputs ==
    UNION { [has_dataset : {TRUE}, n : {n}, m : {m}, n0 : {n},
             dlen : [0..(n - 1) -> [0..(n_renderings - 1) -> {0, 1, MaxMaxLen(m)}]]]
            : <<n, m>> \in (0..MaxShrinkObjects) \X (1..MaxWidth) }

InitConcat ==
    /\ inp \in ConcatInputs
    /\ tmp = StoreOf(inp, MaxMaxLen(inp.m))
    /\ dst = NoFile
    /\ pc = "concat_open"
    /\ out = "running"
    /\ prog = 0
    /\ max_len = 0
    /\ i = 0
    /\ j = 0
    /\ chunk_size = DefaultChunkSize
    /\ runs = 1
    /\ tmp0 = tmp
    /\ intr_kind = "none"
    /\ intr_k = 0

NextConcat ==
    \/ ConcatOpen
    \/ ConcatStarts
    \/ ConcatValues

SpecConcat == InitConcat /\ [][NextConcat]_vars

\* ------------------------------------------------------------ properties
\* attrs.get('prog', 0) of a file
ProgOf(file) == AttrsGet(file.attrs, "prog", 0)

\* the errors an invocation can end with
Errors == {"RuntimeError", "AssertionError", "ValueError", "TypeError", "KeyError"}

\* C1: every row below the stored prog holds, in each of its n_renderings
\* entries, the encoding of that (object, rendering) followed by zero bytes
\* only: prog is advanced past a row after all of the row's entries are in.
RowsBelowProgComplete ==
    \A a \in 0..(ProgOf(tmp) - 1) :
        /\ GROUP_KEY \in DOMAIN tmp.datasets
        /\ \A b \in 0..(n_renderings - 1) :
              /\ Len(RleData(a, b)) <= MaxMaxLen(inp.m)
              /\ tmp.datasets[GROUP_KEY].data[a][b] = Pad(RleData(a, b), MaxMaxLen(inp.m))

\* two objects committed by a run that followed a termination inside a row
RowsBelowProgCompleteWitness ==
    /\ ProgOf(tmp) = 2
    /\ intr_kind = "other"
    /\ runs >= 2

\* The run that is never interrupted, on a fresh temp store: lines 104-120
\* over the entries k = a * n_renderings + b in order, st the local max_len
\* and the dataset, st.ok false once an exception ended the loop.
RECURSIVE StraightEntries(_, _)
StraightEntries(st, k) ==
    IF k = inp.n * n_renderings THEN st
    ELSE LET a == k \div n_renderings
             b == k % n_renderings
             data == RleData(a, b)
             dlen == Len(data)
         IN  IF dlen > st.max_len /\ dlen > MaxMaxLen(inp.m)
             THEN [st EXCEPT !.ok = FALSE, !.max_len = dlen]
             ELSE StraightEntries(
                    [ok |-> TRUE, max_len |-> Max(st.max_len, dlen),
                     ds |-> SetEntry(st.ds, a, b, data)], k + 1)

\* the accumulator of the uninterrupted run: it gets past the preconditions
\* and through the loop; with no object it returns before max_len is set
StraightTemp ==
    IF inp.has_dataset /\ inp.n = inp.n0 /\ inp.n > 0
    THEN StraightEntries(
           [ok |-> TRUE, max_len |-> 0,
            ds |-> NewDataset(inp.n, n_renderings, MaxMaxLen(inp.m))], 0)
    ELSE [ok |-> FALSE, max_len |-> 0,
          ds |-> NewDataset(inp.n, n_renderings, MaxMaxLen(inp.m))]

\* the final store the uninterrupted run leaves
StraightFinal ==
    [exists   |-> TRUE,
     attrs    |-> EmptyDict,
     datasets |-> (GROUP_KEY :>
        [shape |-> <<inp.n, n_renderings, StraightTemp.max_len>>,
         data  |-> [a \in 0..(inp.n - 1) |-> [b \in 0..(n_renderings - 1) |->
                      Take(StraightTemp.ds.data[a][b], StraightTemp.max_len)]]])]

\* C2: a pipeline that completes after interruptions and re-runs leaves the
\* final store (shape and every byte) of the uninterrupted run on the same
\* inputs, with the max_len of that run; and it ends in an error only where
\* the uninterrupted run does.
ResumedFinalSameAsStraight ==
    /\ (pc = "idle" /\ out = "ok") =>
          /\ StraightTemp.ok
          /\ dst = StraightFinal
          /\ tmp.attrs["max_len"] = StraightTemp.max_len
    /\ (pc = "idle" /\ out \in Errors) => ~StraightTemp.ok

\* completed after an interruption that followed the commit of object 0
ResumedFinalWitness ==
    /\ pc = "idle"
    /\ out = "ok"
    /\ inp.n = 2
    /\ intr_kind = "commit"
    /\ intr_k = 1

\* C4: the stored prog never exceeds the number of objects, and it changes
\* only by the commit of the object i just processed, from i to i + 1.
ProgStepsByOne ==
    /\ [](ProgOf(tmp) <= inp.n /\ ProgOf(tmp) <= inp.n0)
    /\ [][ProgOf(tmp') # ProgOf(tmp) =>
            /\ pc = "acc_commit"
            /\ ProgOf(tmp) = i
            /\ ProgOf(tmp') = i + 1]_vars

\* the second object committed by a run that resumed at prog = 1
ProgStepsByOneWitness ==
    /\ ProgOf(tmp) = 2
    /\ ProgOf(tmp0) = 1
    /\ runs >= 2

\* C5: once stored, max_len stays stored and no step lowers it.
MaxLenNonDecreasing ==
    [][("max_len" \in DOMAIN tmp.attrs) =>
          /\ "max_len" \in DOMAIN tmp'.attrs
          /\ tmp'.attrs["max_len"] >= tmp.attrs["max_len"]]_vars

\* a resumed run that found max_len = 1 stored and has raised it
MaxLenNonDecreasingWitness ==
    /\ runs >= 2
    /\ "max_len" \in DOMAIN tmp0.attrs
    /\ tmp0.attrs["max_len"] = 1
    /\ tmp.attrs["max_len"] > 1

\* the fixed-width store _shrink_data makes of a temp store: shape
\* (n_examples, n_renderings, max_len), every entry the first max_len bytes
CompactedOf(file) ==
    LET src_group == file.datasets[GROUP_KEY]
        len == file.attrs["max_len"]
    IN  [exists   |-> TRUE,
         attrs    |-> EmptyDict,
         datasets |-> (GROUP_KEY :>
            [shape |-> <<src_group.shape[1], src_group.shape[2], len>>,
             data  |-> [a \in DOMAIN src_group.data |->
                          [b \in DOMAIN src_group.data[a] |->
                             SubSeq(src_group.data[a][b], 1, len)]]])]

\* the temp store is finished and the file at dst_path is its compaction
FinalComplete ==
    /\ "max_len" \in DOMAIN tmp.attrs
    /\ GROUP_KEY \in DOMAIN tmp.datasets
    /\ ProgOf(tmp) = inp.n
    /\ dst = CompactedOf(tmp)

\* C3: with no process running (it returned, failed or was terminated at any
\* point), a file at the final path holds the complete compacted content of
\* the finished temp store, so 'Already present.' never accepts a partial one.
FinalFileAlwaysComplete ==
    (pc = "idle" /\ isfile(dst)) => FinalComplete

\* C6: an invocation ended by a missing source dataset or by the row-count
\* assertion leaves the temp store (existence, attributes, dataset) as it
\* was when the invocation began.
PreconditionFailureLeavesStore ==
    (pc = "idle" /\ out \in {"RuntimeError", "AssertionError"}) => tmp = tmp0

\* C7: the step that takes an encoding longer than max_max_len, in a fresh or
\* a resumed run, ends the run with the capacity error (ValueError), with no
\* dataset byte written and prog not advanced.
CapacityErrorAlwaysRaised ==
    [][(/\ pc = "acc_convert"
        /\ j < n_renderings
        /\ Len(RleData(i, j)) > MaxMaxLen(inp.m)
        /\ out' # "killed") =>
          /\ pc' = "idle"
          /\ out' = "ValueError"
          /\ tmp'.datasets = tmp.datasets
          /\ ProgOf(tmp') = ProgOf(tmp)]_vars

\* C8: with a file at the final path, an invocation returns 'Already
\* present.' without entering the accumulator or the compactor, and neither
\* store changes, however often it is invoked.
AlreadyPresentNoWrites ==
    [][(pc = "idle" /\ isfile(dst)) =>
          /\ pc' = "idle"
          /\ out' = "Already present."
          /\ tmp' = tmp
          /\ dst' = dst]_vars

\* one complete run, then two invocations that found the final store
AlreadyPresentWitness ==
    /\ pc = "idle"
    /\ out = "Already present."
    /\ runs = 3
    /\ intr_kind = "none"
    /\ FinalComplete

\* C9: _shrink_data, for every chunk_size, ends normally with a store of
\* shape (n_objects, n_renderings, max_len) whose entry (a, b) is the first
\* max_len bytes of the temp store's entry (a, b); the temp store's shape
\* and max_len alone decide the result.
ShrinkCopiesPrefixes ==
    (pc = "idle") =>
        /\ out = "ok"
        /\ dst.exists
        /\ DOMAIN dst.datasets = {GROUP_KEY}
        /\ dst.datasets[GROUP_KEY].shape = <<inp.n, n_renderings, tmp.attrs["max_len"]>>
        /\ \A a \in 0..(inp.n - 1) : \A b \in 0..(n_renderings - 1) :
              dst.datasets[GROUP_KEY].data[a][b]
                = SubSeq(tmp.datasets[GROUP_KEY].data[a][b], 1, tmp.attrs["max_len"])

\* three rows copied in chunks of two: a full chunk, then a partial one
ShrinkCopiesPrefixesWitness ==
    /\ pc = "idle"
    /\ out = "ok"
    /\ inp.n = 3
    /\ chunk_size = 2
    /\ tmp.attrs["max_len"] = 2

\* the longest encoding over all n * n_renderings entries, 0 when there is none
RECURSIVE LongestFrom(_)
LongestFrom(k) ==
    IF k = inp.n * n_renderings THEN 0
    ELSE Max(inp.dlen[k \div n_renderings][k % n_renderings], LongestFrom(k + 1))

\* C10: once the accumulator has found or made the job complete
\* (attrs.get('prog', 0) = n_objects, preconditions met), the stored max_len
\* is the longest encoded length over all entries.
CompleteStoreHoldsTrueMax ==
    (/\ tmp.exists
     /\ inp.has_dataset
     /\ inp.n = inp.n0
     /\ ProgOf(tmp) = inp.n) =>
        /\ "max_len" \in DOMAIN tmp.attrs
        /\ tmp.attrs["max_len"] = LongestFrom(0)

\* the accumulator's preconditions: the source dataset is there and has as
\* many rows as the camera-pose group
Preconditions == inp.has_dataset /\ inp.n = inp.n0

\* C11: with the preconditions met, for every number of objects (none
\* included), _shrink_data starts on a temp store that has prog = n_objects,
\* the max_len attribute and the dataset.
ShrinkStartsOnCompleteStore ==
    (pc = "shrink_open" /\ Preconditions) =>
        /\ ProgOf(tmp) = inp.n
        /\ "max_len" \in DOMAIN tmp.attrs
        /\ GROUP_KEY \in DOMAIN tmp.datasets

\* the positions of _shrink_data
ShrinkPcs == {"shrink_open", "shrink_create", "shrink_copy"}

\* C12: no step of _shrink_data, the last one before a termination
\* included, changes the temp store: its attributes and every byte of its
\* dataset stay as they are.
ShrinkLeavesTemp ==
    [][(pc \in ShrinkPcs) => tmp' = tmp]_vars

\* _shrink_data was terminated after it had copied its rows
ShrinkLeavesTempWitness ==
    /\ pc = "idle"
    /\ out = "killed"
    /\ inp.n = 2
    /\ isfile(dst)
    /\ GROUP_KEY \in DOMAIN dst.datasets
    /\ dst = CompactedOf(tmp)

\* C13: the starts dataset has n_objects * n_renderings + 1 entries, begins
\* with 0, never decreases, and ends with the length of values; when
\* _concat_data has returned, values[starts[k]:starts[k+1]] is the stream of
\* entry (k div n_renderings, k mod n_renderings) without its padding.
ConcatLayout ==
    LET n_total == inp.n * n_renderings IN
    /\ ("starts" \in DOMAIN dst.datasets) =>
          LET starts == dst.datasets["starts"].data
              values == dst.datasets["values"]
          IN  /\ DOMAIN starts = 0..n_total
              /\ starts[0] = 0
              /\ \A k \in 0..(n_total - 1) : starts[k] <= starts[k + 1]
              /\ values.shape = <<starts[n_total]>>
              /\ DOMAIN values.data = 0..(starts[n_total] - 1)
    /\ (pc = "idle") =>
          /\ out = "ok"
          /\ \A k \in 0..(n_total - 1) :
                LET starts == dst.datasets["starts"].data
                    values == dst.datasets["values"].data
                IN  [x \in 1..(starts[k + 1] - starts[k]) |-> values[starts[k] + x - 1]]
                      = RleData(k \div n_renderings, k % n_renderings)

\* three objects concatenated, an empty entry between two full ones
ConcatLayoutWitness ==
    /\ pc = "idle"
    /\ out = "ok"
    /\ inp.n = 3
    /\ inp.dlen[0][0] = MaxMaxLen(inp.m)
    /\ inp.dlen[0][1] = 0
    /\ inp.dlen[1][0] = 1
    /\ dst.datasets["starts"].data[3] = MaxMaxLen(inp.m) + 1

\* C14: the accumulator opened on a store whose prog equals the number of
\* objects returns at once to its caller (or is terminated) and sets no
\* attribute and writes no dataset entry; an existing store stays as it is.
CompleteStoreReturnsAtOnce ==
    [][(pc = "acc_open" /\ ProgOf(tmp) = inp.n0) =>
          /\ pc' \in {"shrink_open", "idle"}
          /\ tmp'.attrs = tmp.attrs
          /\ tmp'.datasets = tmp.datasets
          /\ tmp.exists => tmp' = tmp
          /\ dst' = dst]_vars

\* a later call found the two objects committed and went on to _shrink_data
CompleteStoreReturnsAtOnceWitness ==
    /\ pc = "shrink_open"
    /\ inp.n = 2
    /\ ProgOf(tmp0) = 2
    /\ tmp = tmp0
    /\ intr_kind # "none"

\* the positions of the object loop of create_temp_frustrum_voxels
LoopPcs == {"acc_loop", "acc_convert", "acc_write", "acc_commit"}

\* C15: the object loop starts at the stored prog; the object in work is
\* always the one with index prog, so every row at or above the stored prog
\* is written and committed once, in order, until prog = n_objects; no step
\* of the accumulator changes a row below prog.
ResumeAtStoredProg ==
    [][/\ (pc = "acc_source" /\ pc' = "acc_loop") => i' = ProgOf(tmp)
       /\ (pc \in LoopPcs) => i = ProgOf(tmp)
       /\ (pc = "acc_loop" /\ pc' = "shrink_open") => ProgOf(tmp) = inp.n
       /\ (GROUP_KEY \in DOMAIN tmp.datasets) =>
             /\ GROUP_KEY \in DOMAIN tmp'.datasets
             /\ \A a \in 0..(ProgOf(tmp) - 1) :
                   tmp'.datasets[GROUP_KEY].data[a] = tmp.datasets[GROUP_KEY].data[a]
      ]_vars

\* a call that found one object committed has committed the second one
ResumeAtStoredProgWitness ==
    /\ pc = "shrink_open"
    /\ inp.n = 2
    /\ ProgOf(tmp0) = 1
    /\ ProgOf(tmp) = 2

\* C16: at every moment, every byte of the temp dataset beyond the stored
\* max_len is a padding zero, so no written entry is longer than max_len;
\* and when _shrink_data has returned, padding each entry of the final store
\* back to the capacity gives the entry of the temp store.
EntriesWithinMaxLen ==
    /\ (GROUP_KEY \in DOMAIN tmp.datasets) =>
          /\ "max_len" \in DOMAIN tmp.attrs
          /\ \A a \in 0..(inp.n - 1) : \A b \in 0..(n_renderings - 1) :
                \A x \in 1..Len(tmp.datasets[GROUP_KEY].data[a][b]) :
                   x > tmp.attrs["max_len"] =>
                      tmp.datasets[GROUP_KEY].data[a][b][x] = 0
    /\ (pc = "idle" /\ out = "ok") =>
          \A a \in 0..(inp.n - 1) : \A b \in 0..(n_renderings - 1) :
             Pad(dst.datasets[GROUP_KEY].data[a][b], MaxMaxLen(inp.m))
                = tmp.datasets[GROUP_KEY].data[a][b]

\* an interrupted job has ended with a final store narrower than the capacity
EntriesWithinMaxLenWitness ==
    /\ pc = "idle"
    /\ out = "ok"
    /\ inp.n = 2
    /\ intr_kind # "none"
    /\ tmp.attrs["max_len"] = 1
    /\ dst.datasets[GROUP_KEY].shape[3] = 1
    /\ dst.datasets[GROUP_KEY].data[1][1][1] # 0

\* C17: at every moment, after a capacity failure included, the stored
\* max_len is at most the capacity 3 * width of the dataset's last axis.
MaxLenWithinCapacity ==
    ("max_len" \in DOMAIN tmp.attrs) =>
        tmp.attrs["max_len"] <= MaxMaxLen(inp.m)

\* ------------------------------------------------- the job that is resumed
\* the conditions of the liveness statement: the preconditions hold and no
\* encoding is longer than the capacity
Encodable ==
    /\ Preconditions
    /\ \A a \in 0..(inp.n - 1) : \A b \in 0..(n_renderings - 1) :
          inp.dlen[a][b] <= MaxMaxLen(inp.m)

InitLive == Init /\ Encodable

\* a termination that is not the last thing that happens: the caller can
\* still call again
TerminateLive == Terminate /\ runs < MaxRuns

\* the steps of the program itself, the caller's calls included
ProgramStep ==
    \/ create_frustrum_voxels
    \/ AccOpen
    \/ AccSetNRenderings
    \/ AccSetMaxLen
    \/ AccSource
    \/ AccLoop
    \/ AccConvert
    \/ AccWrite
    \/ AccCommit
    \/ ShrinkOpen
    \/ ShrinkCreate
    \/ ShrinkCopy

NextLive ==
    \/ ProgramStep
    \/ TerminateLive

\* the process runs on unless it is terminated, and is called again after
\* each of the finitely many terminations
SpecLive == InitLive /\ [][NextLive]_vars /\ WF_vars(ProgramStep)

\* C18: with the preconditions met and every encoding within the capacity, a
\* job that is terminated finitely often and called again each time ends
\* with prog = n_objects; each call starts its loop at the stored prog and
\* the stored prog never decreases.
ResumedJobCompletes ==
    /\ <>(ProgOf(tmp) = inp.n)
    /\ [][ProgOf(tmp') >= ProgOf(tmp)]_vars
    /\ [][(pc = "acc_source" /\ pc' = "acc_loop") => i' = ProgOf(tmp)]_vars

\* two objects committed by a job that was terminated on the way
ResumedJobCompletesWitness ==
    /\ ProgOf(tmp) = inp.n
    /\ inp.n = 2
    /\ intr_kind # "none"
    /\ ProgOf(tmp0) = 1

====
